---- MODULE Spec2Model ----
(***************************************************************************)
(* yamldirs/filemaker.py: the tree-to-filesystem materializer              *)
(* (FilemakerBase, Filemaker, FilemakerExplicit) and the scoped sandbox    *)
(* create_files, as a state machine over an abstract filesystem.           *)
(*                                                                         *)
(* A decoded YAML value is a record tagged by "kind":                      *)
(*   str, int, bool, date, datetime, none, list (items), dict (entries).   *)
(* A filesystem path is a sequence of component names, <<>> being "/".     *)
(* The filesystem is a set of entries [path, isdir, content, mode, user,   *)
(* group].  An exception is the name of its Python class; "ok" is none.    *)
(***************************************************************************)
EXTENDS Integers, Sequences, FiniteSets, TLC

VARIABLES
    pc,        \* where the caller is: unstarted, active, torndown, constructed, coerced
    fdef,      \* the decoded tree value handed to the interpreter
    fs,        \* the filesystem
    cwd,       \* the process's current working directory
    curdir,    \* the instance's _curdir stack
    pushes,    \* number of pushd calls made by the instance
    pops,      \* number of popd calls made by the instance
    raised,    \* the exception that reached the caller, "ok" if none
    startCwd,  \* the working directory immediately before the operation
    root,      \* the root path given to the interpreter
    cleanup,   \* create_files' cleanup argument
    bodyRan,   \* whether the scope body of create_files started
    bodyMoved, \* whether the scope body changed the working directory
    fdOpen,    \* environment: integers name descriptors open for writing
    privileged,\* environment: the process may change owners
    val,       \* value2str's argument
    res        \* value2str's outcome

vars == <<pc, fdef, fs, cwd, curdir, pushes, pops, raised, startCwd, root,
          cleanup, bodyRan, bodyMoved, fdOpen, privileged, val, res>>

----------------------------------------------------------------------------
(* Bounds of the model. *)

\* Largest number of nodes of a tree handed to the implicit dialect.
MaxNodes == 3
\* Largest number of nodes of a tree handed to the explicit dialect.
MaxExplicitNodes == 2
\* Largest day of the month, and largest absolute value of an int, drawn
\* as value2str's argument.
MaxDay == 12
MaxInt == 11

----------------------------------------------------------------------------
(* Decoded YAML values. *)

Str(s) == [kind |-> "str", s |-> s]
Int_(n) == [kind |-> "int", n |-> n]
Bool(b) == [kind |-> "bool", b |-> b]
Date(y, m, d) == [kind |-> "date", y |-> y, m |-> m, d |-> d]
DateTime(y, m, d, hh, mi) ==
    [kind |-> "datetime", y |-> y, m |-> m, d |-> d, hh |-> hh, mi |-> mi]
None == [kind |-> "none"]
List(items) == [kind |-> "list", items |-> items]
Dict(entries) == [kind |-> "dict", entries |-> entries]

\* An absolute path used as a directory name (the root argument).
AbsPath(p) == [kind |-> "abspath", path |-> p]

----------------------------------------------------------------------------
(* Text formatting: str(int), str(bool), date.isoformat(). *)

DigitChars == <<"0", "1", "2", "3", "4", "5", "6", "7", "8", "9">>

RECURSIVE NatStr(_)
NatStr(n) == IF n < 10 THEN DigitChars[n + 1]
             ELSE NatStr(n \div 10) \o DigitChars[(n % 10) + 1]

\* str(n) of an int
IntStr(n) == IF n < 0 THEN "-" \o NatStr(0 - n) ELSE NatStr(n)

\* str(b) of a bool
BoolStr(b) == IF b THEN "True" ELSE "False"

RECURSIVE ZeroPad(_, _)
ZeroPad(s, w) == IF Len(s) >= w THEN s ELSE ZeroPad("0" \o s, w)

\* datetime.date.isoformat(): "%04d-%02d-%02d"
IsoFormat(y, m, d) ==
    ZeroPad(NatStr(y), 4) \o "-" \o ZeroPad(NatStr(m), 2) \o "-" \o ZeroPad(NatStr(d), 2)

----------------------------------------------------------------------------
(* FilemakerBase.value2str: the outcome is [err, s]. *)

Ok(s) == [err |-> "ok", s |-> s]
Fail(e) == [err |-> e, s |-> ""]

\* isinstance(val, basestring)
IsBasestring(v) == v.kind = "str"

\* isinstance(val, numbers.Number): bool is a subclass of int
IsNumber(v) == v.kind \in {"int", "bool"}

\* Variant: isinstance(val, datetime.date), which a datetime passes too.
IsInstanceDate(v) == v.kind \in {"date", "datetime"}

\* type(val) == datetime.date: an exact type test, a datetime does not pass
IsExactDate(v) == v.kind = "date"

value2str(v) ==
    IF IsBasestring(v) THEN Ok(v.s)
    ELSE IF IsNumber(v) THEN Ok(IF v.kind = "bool" THEN BoolStr(v.b) ELSE IntStr(v.n))
    ELSE IF IsExactDate(v) THEN Ok(IsoFormat(v.y, v.m, v.d))
    ELSE Fail("UnknownType")

----------------------------------------------------------------------------
(* The filesystem. *)

\* A new entry: mode -1 stands for the mode the umask gives, "me" for the
\* process's own user and group.
Entry(p, isdir, content) ==
    [path |-> p, isdir |-> isdir, content |-> content,
     mode |-> -1, user |-> "me", group |-> "me"]

Exists(f, p) == \E e \in f : e.path = p
IsDir(f, p) == \E e \in f : e.path = p /\ e.isdir
IsFile(f, p) == \E e \in f : e.path = p /\ ~e.isdir
EntryAt(f, p) == CHOOSE e \in f : e.path = p

IsPrefix(p, q) == Len(p) <= Len(q) /\ SubSeq(q, 1, Len(p)) = p

\* The entries strictly below directory p.
Below(f, p) == {e \in f : IsPrefix(p, e.path) /\ e.path # p}

\* Variant: the contents are removed and the directory itself is left.
RmtreeKeepsRoot(f, p) == {e \in f : ~IsPrefix(p, e.path) \/ e.path = p}

\* shutil.rmtree(p, ignore_errors=True)
Rmtree(f, p) == {e \in f : ~IsPrefix(p, e.path)}

----------------------------------------------------------------------------
(* The interpreter's state while it walks: the filesystem, the working    *)
(* directory, the _curdir stack, the pushd/popd call counts, and the       *)
(* exception in flight ("ok" when none).  Every step passes a state with   *)
(* an exception in flight through unchanged: the exception propagates.     *)

WalkState(f, c, stack, npush, npop, e) ==
    [fs |-> f, cwd |-> c, curdir |-> stack, pushes |-> npush, pops |-> npop, err |-> e]

Raise(st, e) == [st EXCEPT !.err = e]

\* os.path.abspath(dirname) against the working directory c
Abspath(c, v) == IF v.kind = "abspath" THEN v.path
                 ELSE IF v.s = "" THEN c
                 ELSE c \o <<v.s>>

\* os.mkdir(dirname)
OsMkdir(st, v) ==
    IF st.err # "ok" THEN st
    ELSE IF v.kind # "str" THEN Raise(st, "TypeError")
    ELSE IF v.s = "" THEN Raise(st, "FileNotFoundError")
    ELSE IF Exists(st.fs, st.cwd \o <<v.s>>) THEN Raise(st, "FileExistsError")
    ELSE [st EXCEPT !.fs = @ \cup {Entry(st.cwd \o <<v.s>>, TRUE, "")}]

\* os.chdir(p) with p absolute
OsChdir(st, p) ==
    IF st.err # "ok" THEN st
    ELSE IF ~Exists(st.fs, p) THEN Raise(st, "FileNotFoundError")
    ELSE IF ~IsDir(st.fs, p) THEN Raise(st, "NotADirectoryError")
    ELSE [st EXCEPT !.cwd = p]

\* Filemaker.mkdir / FilemakerExplicit.mkdir
Mkdir(st, v) == OsMkdir(st, v)

\* Filemaker.pushd / FilemakerExplicit.pushd
Pushd(st, v) ==
    IF st.err # "ok" THEN st
    ELSE IF v.kind \notin {"str", "abspath"}
         THEN Raise([st EXCEPT !.pushes = @ + 1], "TypeError")
    ELSE OsChdir([st EXCEPT !.curdir = Append(@, st.cwd), !.pushes = @ + 1],
                 Abspath(st.cwd, v))

\* Filemaker.popd / FilemakerExplicit.popd
Popd(st) ==
    IF st.err # "ok" THEN st
    ELSE IF st.curdir = <<>> THEN Raise([st EXCEPT !.pops = @ + 1], "IndexError")
    ELSE OsChdir([st EXCEPT !.curdir = SubSeq(@, 1, Len(@) - 1), !.pops = @ + 1],
                 st.curdir[Len(st.curdir)])

\* Variant: open(filename, 'x'), which refuses a name already taken.
OpenExclusive(st, v) ==
    IF st.err # "ok" THEN st
    ELSE IF v.kind # "str" THEN Raise(st, "TypeError")
    ELSE IF v.s = "" THEN Raise(st, "FileNotFoundError")
    ELSE IF Exists(st.fs, st.cwd \o <<v.s>>) THEN Raise(st, "FileExistsError")
    ELSE [st EXCEPT !.fs = @ \cup {Entry(st.cwd \o <<v.s>>, FALSE, "")}]

\* open(filename, 'w'): creates the file or truncates it, keeping its metadata
OpenW(st, v) ==
    IF st.err # "ok" THEN st
    ELSE IF v.kind \in {"int", "bool"}
         THEN IF fdOpen THEN st ELSE Raise(st, "OSError")
    ELSE IF v.kind # "str" THEN Raise(st, "TypeError")
    ELSE IF v.s = "" THEN Raise(st, "FileNotFoundError")
    ELSE LET p == st.cwd \o <<v.s>> IN
         IF IsDir(st.fs, p) THEN Raise(st, "IsADirectoryError")
         ELSE IF IsFile(st.fs, p)
              THEN [st EXCEPT !.fs = (@ \ {EntryAt(st.fs, p)})
                                     \cup {[EntryAt(st.fs, p) EXCEPT !.content = ""]}]
         ELSE [st EXCEPT !.fs = @ \cup {Entry(p, FALSE, "")}]

\* fp.write(content) on the file just opened under name v
Write(st, v, content) ==
    IF st.err # "ok" THEN st
    ELSE IF content.kind # "str" THEN Raise(st, "TypeError")
    ELSE IF v.kind # "str" THEN st
    ELSE LET p == st.cwd \o <<v.s>> IN
         [st EXCEPT !.fs = (@ \ {EntryAt(st.fs, p)})
                           \cup {[EntryAt(st.fs, p) EXCEPT !.content = content.s]}]

\* Filemaker.make_file / FilemakerExplicit.make_file
MakeFile(st, filename, content) == Write(OpenW(st, filename), filename, content)

----------------------------------------------------------------------------
(* FilemakerExplicit's metadata handlers.  The file or directory named by *)
(* a str was just created by this process; a name that is an int is a      *)
(* descriptor, closed again when make_file's with-block ended.             *)

KnownUsers == {"me", "root"}
KnownGroups == {"me", "wheel"}

SetMeta(st, v, field, x) ==
    LET p == st.cwd \o <<v.s>> IN
    [st EXCEPT !.fs = (@ \ {EntryAt(st.fs, p)})
                      \cup {[EntryAt(st.fs, p) EXCEPT ![field] = x]}]

\* FilemakerExplicit.make_item_mode: os.chmod(filename, mode)
MakeItemMode(st, filename, mode) ==
    IF st.err # "ok" THEN st
    ELSE IF filename.kind \notin {"str", "int", "bool"} THEN Raise(st, "TypeError")
    ELSE IF mode.kind \notin {"int", "bool"} THEN Raise(st, "TypeError")
    ELSE IF filename.kind # "str" THEN Raise(st, "OSError")
    ELSE SetMeta(st, filename, "mode",
                 IF mode.kind = "bool" THEN (IF mode.b THEN 1 ELSE 0) ELSE mode.n)

\* shutil.chown(filename, user=who) or (filename, group=who): the name is
\* looked up, then os.chown is tried; PermissionError is caught and printed.
Chown(st, filename, who, field, known) ==
    IF st.err # "ok" THEN st
    ELSE IF who.kind = "none" THEN Raise(st, "ValueError")
    ELSE IF who.kind = "str" /\ who.s \notin known THEN Raise(st, "LookupError")
    ELSE IF who.kind \notin {"str", "int", "bool"} THEN Raise(st, "TypeError")
    ELSE IF filename.kind \notin {"str", "int", "bool"} THEN Raise(st, "TypeError")
    ELSE IF filename.kind # "str" THEN Raise(st, "OSError")
    ELSE LET name == IF who.kind = "str" THEN who.s
                     ELSE IF who.kind = "bool" THEN (IF who.b THEN "#1" ELSE "#0")
                     ELSE "#" \o IntStr(who.n) IN
         IF name = EntryAt(st.fs, st.cwd \o <<filename.s>>)[field] \/ privileged
         THEN SetMeta(st, filename, field, name)
         ELSE st

\* FilemakerExplicit.make_item_user
MakeItemUser(st, filename, user) == Chown(st, filename, user, "user", KnownUsers)

\* FilemakerExplicit.make_item_group
MakeItemGroup(st, filename, group) == Chown(st, filename, group, "group", KnownGroups)

\* self.keywords, set in FilemakerExplicit.__init__
Keywords == {Str("mode"), Str("user"), Str("group")}

ApplyKeyword(st, key, current, x) ==
    IF key = Str("mode") THEN MakeItemMode(st, current, x)
    ELSE IF key = Str("user") THEN MakeItemUser(st, current, x)
    ELSE MakeItemGroup(st, current, x)

----------------------------------------------------------------------------
(* The walker.  dialect is "implicit" (Filemaker, which inherits           *)
(* FilemakerBase.make_dict_item) or "explicit" (FilemakerExplicit, which   *)
(* overrides it).                                                          *)

\* 'key' in dct
HasKey(entries, key) == \E i \in 1..Len(entries) : entries[i].k = Str(key)

\* dct['key']
Get(entries, key) == entries[CHOOSE i \in 1..Len(entries) : entries[i].k = Str(key)].v

\* isinstance(v, (list, dict, NoneType))
IsDirLike(v) == v.kind \in {"list", "dict", "none"}

RECURSIVE MakeItem(_, _, _)
RECURSIVE MakeListItem(_, _, _, _)
RECURSIVE ImplicitEntries(_, _, _, _)
RECURSIVE ExplicitKeys(_, _, _, _, _)

\* Variant: the directory entered for a directory-like entry is never left.
ImplicitEntryNoPopd(dialect, st, e) ==
    LET k == value2str(e.k) IN
    IF k.err # "ok" THEN Raise(st, k.err)
    ELSE IF IsDirLike(e.v)
         THEN LET inside == Pushd(Mkdir(st, Str(k.s)), Str(k.s)) IN
              IF e.v.kind # "none" THEN MakeItem(dialect, inside, e.v) ELSE inside
    ELSE LET c == value2str(e.v) IN
         IF c.err # "ok" THEN Raise(st, c.err)
         ELSE MakeFile(st, Str(k.s), Str(c.s))

\* One iteration of FilemakerBase.make_dict_item's loop, for the entry e.
ImplicitEntry(dialect, st, e) ==
    LET k == value2str(e.k) IN
    IF k.err # "ok" THEN Raise(st, k.err)
    ELSE IF IsDirLike(e.v)
         THEN LET inside == Pushd(Mkdir(st, Str(k.s)), Str(k.s)) IN
              Popd(IF e.v.kind # "none" THEN MakeItem(dialect, inside, e.v) ELSE inside)
    ELSE LET c == value2str(e.v) IN
         IF c.err # "ok" THEN Raise(st, c.err)
         ELSE MakeFile(st, Str(k.s), Str(c.s))

\* FilemakerBase.make_dict_item: for k, v in dct.items(), from entry i on
ImplicitEntries(dialect, st, entries, i) ==
    IF st.err # "ok" \/ i > Len(entries) THEN st
    ELSE ImplicitEntries(dialect, ImplicitEntry(dialect, st, entries[i]), entries, i + 1)

\* One iteration of FilemakerExplicit.make_dict_item's loop over the keys.
ExplicitKey(dialect, st, e, current) ==
    IF e.k = Str("children")
    THEN Popd(MakeItem(dialect, Pushd(st, current), e.v))
    ELSE IF e.k \in Keywords THEN ApplyKeyword(st, e.k, current, e.v)
    ELSE st

\* FilemakerExplicit.make_dict_item: for key in dct, from entry i on
ExplicitKeys(dialect, st, entries, current, i) ==
    IF st.err # "ok" \/ i > Len(entries) THEN st
    ELSE ExplicitKeys(dialect, ExplicitKey(dialect, st, entries[i], current),
                      entries, current, i + 1)

\* FilemakerExplicit.make_dict_item
ExplicitDictItem(dialect, st, entries) ==
    IF HasKey(entries, "directory")
    THEN ExplicitKeys(dialect, Mkdir(st, Get(entries, "directory")), entries,
                      Get(entries, "directory"), 1)
    ELSE IF HasKey(entries, "file")
    THEN ExplicitKeys(dialect,
                      MakeFile(st, Get(entries, "file"),
                               IF HasKey(entries, "content")
                               THEN Get(entries, "content") ELSE Str("")),
                      entries, Get(entries, "file"), 1)
    ELSE Raise(st, "UnknownType")

\* self.make_dict_item(dct), dispatched on the instance's class
MakeDictItem(dialect, st, entries) ==
    IF dialect = "explicit" THEN ExplicitDictItem(dialect, st, entries)
    ELSE ImplicitEntries(dialect, st, entries, 1)

\* FilemakerBase.make_list_item: for item in lst, from element i on
MakeListItem(dialect, st, items, i) ==
    IF st.err # "ok" \/ i > Len(items) THEN st
    ELSE MakeListItem(dialect, MakeItem(dialect, st, items[i]), items, i + 1)

\* FilemakerBase._make_item
MakeItem(dialect, st, item) ==
    IF st.err # "ok" THEN st
    ELSE IF item.kind = "dict" THEN MakeDictItem(dialect, st, item.entries)
    ELSE IF item.kind = "list" THEN MakeListItem(dialect, st, item.items, 1)
    ELSE LET name == value2str(item) IN
         IF name.err # "ok" THEN Raise(st, name.err)
         ELSE MakeFile(st, Str(name.s), Str(""))

\* FilemakerBase.__init__ after Filemaker.__init__ / FilemakerExplicit.__init__
\* set _curdir = []: pushd(root), then _make_item(fdef).  Nothing pops root.
Construct(dialect, f, c, rootdir, tree) ==
    MakeItem(dialect, Pushd(WalkState(f, c, <<>>, 0, 0, "ok"), AbsPath(rootdir)), tree)

----------------------------------------------------------------------------
(* The bounded inputs. *)

\* Keys of a mapping: 1 and "1" are distinct keys with the same coerced name.
KeyScalars == {Str("a"), Str("1"), Int_(1)}

\* Leaves: the empty text is the name no file or directory can take.
LeafScalars == {Str("a"), Str(""), Int_(1), Bool(TRUE), None,
                Date(2024, 2, 9), DateTime(2024, 2, 9, 13, 5)}

RECURSIVE TreesOfSize(_)
RECURSIVE ItemSeqs(_)
RECURSIVE EntrySeqs(_, _)

\* The sequences of trees with n nodes in all.
ItemSeqs(n) ==
    IF n = 0 THEN {<<>>}
    ELSE UNION {{<<t>> \o r : t \in TreesOfSize(k), r \in ItemSeqs(n - k)} : k \in 1..n}

\* The entry lists over distinct keys whose values have n nodes in all.
EntrySeqs(n, keys) ==
    IF n = 0 THEN {<<>>}
    ELSE UNION {UNION {{<<[k |-> key, v |-> t]>> \o r :
                            t \in TreesOfSize(k), r \in EntrySeqs(n - k, keys \ {key})} :
                       k \in 1..n} : key \in keys}

\* The trees of exactly n nodes (a scalar, a list or a dict is one node).
TreesOfSize(n) ==
    (IF n = 1 THEN LeafScalars ELSE {})
    \cup {List(x) : x \in ItemSeqs(n - 1)}
    \cup {Dict(x) : x \in EntrySeqs(n - 1, KeyScalars)}

\* The trees of at most n nodes.
TreesUpTo(n) == UNION {TreesOfSize(k) : k \in 1..n}

\* Node descriptors of the explicit dialect: the discriminator and content
\* keys, then children (when given), then a metadata key.
ExplicitNames == {Str("a"), Int_(1)}
ExplicitContents == {Str("x"), Int_(1)}

ExplicitHeads ==
    {<<[k |-> Str("directory"), v |-> n]>> : n \in ExplicitNames}
    \cup {<<[k |-> Str("file"), v |-> n]>> : n \in ExplicitNames}
    \cup {<<[k |-> Str("file"), v |-> n], [k |-> Str("content"), v |-> c]>> :
              n \in ExplicitNames, c \in ExplicitContents}
    \cup {<<[k |-> Str("directory"), v |-> Str("a")], [k |-> Str("file"), v |-> Str("a")]>>,
          <<[k |-> Str("file"), v |-> Str("a")], [k |-> Str("owner"), v |-> Str("x")]>>,
          <<[k |-> Str("file"), v |-> None]>>,
          <<>>}

ExplicitMetas ==
    {<<>>,
     <<[k |-> Str("mode"), v |-> Int_(420)]>>,
     <<[k |-> Str("mode"), v |-> Str("rw")]>>,
     <<[k |-> Str("user"), v |-> Str("root")]>>,
     <<[k |-> Str("group"), v |-> Str("nobody")]>>}

RECURSIVE ExplicitOfSize(_)
RECURSIVE ExplicitItemSeqs(_)

ExplicitItemSeqs(n) ==
    IF n = 0 THEN {<<>>}
    ELSE UNION {{<<t>> \o r : t \in ExplicitOfSize(k), r \in ExplicitItemSeqs(n - k)} :
                k \in 1..n}

\* The explicit-dialect trees of exactly n nodes.
ExplicitOfSize(n) ==
    {List(x) : x \in ExplicitItemSeqs(n - 1)}
    \cup (IF n = 1
          THEN {Str("a")} \cup {Dict(h \o m) : h \in ExplicitHeads, m \in ExplicitMetas}
          ELSE {Dict(h \o <<[k |-> Str("children"), v |-> t]>> \o m) :
                   h \in ExplicitHeads, t \in ExplicitOfSize(n - 1), m \in ExplicitMetas})

\* The explicit-dialect trees of at most n nodes.
ExplicitUpTo(n) == UNION {ExplicitOfSize(k) : k \in 1..n}

\* Arguments of value2str.
CoerceValues ==
    {Str(""), Str("a"), Str("2024-02-09")}
    \cup {Int_(n) : n \in (0 - MaxInt)..MaxInt}
    \cup {Bool(b) : b \in BOOLEAN}
    \cup {Date(y, m, d) : y \in {7, 1999, 2024}, m \in {2, 11}, d \in 1..MaxDay}
    \cup {DateTime(y, m, d, hh, 5) :
              y \in {7, 1999, 2024}, m \in {2, 11}, d \in 1..MaxDay, hh \in {0, 13}}
    \cup {None, List(<<>>), Dict(<<>>)}

\* The filesystem before anything runs: /, /home, /tmp and the empty /out.
InitFs == {Entry(<<>>, TRUE, ""), Entry(<<"home">>, TRUE, ""),
           Entry(<<"tmp">>, TRUE, ""), Entry(<<"out">>, TRUE, "")}

\* Where the caller may stand before the operation.
StartDirs == {<<"home">>, <<>>}

\* Roots handed to a direct construction: the empty /out, and a missing one.
Roots == {<<"out">>, <<"missing">>}

\* tempfile.mkdtemp(): a fresh directory under /tmp
Tmpdir == <<"tmp", "sandbox">>

----------------------------------------------------------------------------
(* create_files. *)

\* Variant: the finally block without os.chdir(cwd).
FinallyKeepsCwd(f, c, savedCwd, tmp, cl) ==
    [fs |-> IF cl THEN Rmtree(f, tmp) ELSE f, cwd |-> c]

\* The finally block: os.chdir(cwd); if cleanup: shutil.rmtree(tmpdir, ...).
\* c is the working directory when the block is entered.
Finally(f, c, savedCwd, tmp, cl) ==
    [fs |-> IF cl THEN Rmtree(f, tmp) ELSE f, cwd |-> savedCwd]

\* Variant: no try/finally around Filemaker(tmpdir, filedef).
EnterOutcomeNoFinally(f, c, tree, cl) ==
    LET st == Construct("implicit", f \cup {Entry(Tmpdir, TRUE, "")}, c, Tmpdir, tree) IN
    IF st.err = "ok"
    THEN [pc |-> "active", fs |-> st.fs, cwd |-> Tmpdir, raised |-> "ok", walk |-> st]
    ELSE [pc |-> "torndown", fs |-> st.fs, cwd |-> st.cwd, raised |-> st.err, walk |-> st]

\* create_files up to its yield, or to the end when Filemaker raises: the
\* outcome is the state in which the caller (or its scope body) continues.
EnterOutcome(f, c, tree, cl) ==
    LET st == Construct("implicit", f \cup {Entry(Tmpdir, TRUE, "")}, c, Tmpdir, tree) IN
    IF st.err = "ok"
    THEN [pc |-> "active", fs |-> st.fs, cwd |-> Tmpdir, raised |-> "ok", walk |-> st]
    ELSE LET fin == Finally(st.fs, st.cwd, c, Tmpdir, cl) IN
         [pc |-> "torndown", fs |-> fin.fs, cwd |-> fin.cwd, raised |-> st.err, walk |-> st]

\* with create_files(fdef, cleanup=cl): entered by the caller
CreateFilesEnter(cl) ==
    /\ pc = "unstarted"
    /\ LET out == EnterOutcome(fs, cwd, fdef, cl) IN
       /\ pc' = out.pc
       /\ fs' = out.fs
       /\ cwd' = out.cwd
       /\ raised' = out.raised
       /\ curdir' = out.walk.curdir
       /\ pushes' = out.walk.pushes
       /\ pops' = out.walk.pops
       /\ bodyRan' = (out.pc = "active")
    /\ root' = Tmpdir
    /\ cleanup' = cl
    /\ UNCHANGED <<fdef, startCwd, bodyMoved, fdOpen, privileged, val, res>>

\* The scope body changes the working directory.
BodyChdir(d) ==
    /\ pc = "active"
    /\ IsDir(fs, d)
    /\ d # cwd
    /\ cwd' = d
    /\ bodyMoved' = TRUE
    /\ UNCHANGED <<pc, fdef, fs, curdir, pushes, pops, raised, startCwd, root,
                   cleanup, bodyRan, fdOpen, privileged, val, res>>

\* The scope body ends: normally (e = "ok") or by raising e, which the
\* generator re-raises at its yield; the finally block runs either way.
BodyExit(e) ==
    /\ pc = "active"
    /\ LET fin == Finally(fs, cwd, startCwd, root, cleanup) IN
       /\ fs' = fin.fs
       /\ cwd' = fin.cwd
    /\ pc' = "torndown"
    /\ raised' = e
    /\ UNCHANGED <<fdef, curdir, pushes, pops, startCwd, root, cleanup, bodyRan,
                   bodyMoved, fdOpen, privileged, val, res>>

\* Filemaker(r, fdef) or FilemakerExplicit(r, fdef), called directly
ConstructDirect(dialect, r) ==
    /\ pc = "unstarted"
    /\ LET st == Construct(dialect, fs, cwd, r, fdef) IN
       /\ fs' = st.fs
       /\ cwd' = st.cwd
       /\ curdir' = st.curdir
       /\ pushes' = st.pushes
       /\ pops' = st.pops
       /\ raised' = st.err
    /\ pc' = "constructed"
    /\ root' = r
    /\ UNCHANGED <<fdef, startCwd, cleanup, bodyRan, bodyMoved, fdOpen, privileged,
                   val, res>>

ConstructFilemaker(r) == ConstructDirect("implicit", r)

InitCommon ==
    /\ pc = "unstarted"
    /\ fs = InitFs
    /\ cwd \in StartDirs
    /\ startCwd = cwd
    /\ curdir = <<>>
    /\ pushes = 0
    /\ pops = 0
    /\ raised = "ok"
    /\ root = <<>>
    /\ cleanup = TRUE
    /\ bodyRan = FALSE
    /\ bodyMoved = FALSE
    /\ res = Ok("")

Init ==
    /\ InitCommon
    /\ fdef \in TreesUpTo(MaxNodes)
    /\ fdOpen = FALSE
    /\ privileged = FALSE
    /\ val = None

Next ==
    \/ \E cl \in BOOLEAN : CreateFilesEnter(cl)
    \/ \E d \in {<<>>, <<"home">>, Tmpdir} : BodyChdir(d)
    \/ \E e \in {"ok", "BodyError"} : BodyExit(e)
    \/ \E r \in Roots : ConstructFilemaker(r)

Spec == Init /\ [][Next]_vars

----------------------------------------------------------------------------
(* The explicit dialect, constructed directly. *)

ConstructFilemakerExplicit(r) == ConstructDirect("explicit", r)

InitExplicit ==
    /\ InitCommon
    /\ fdef \in ExplicitUpTo(MaxExplicitNodes)
    /\ fdOpen \in BOOLEAN
    /\ privileged \in BOOLEAN
    /\ val = None

NextExplicit == \E r \in Roots : ConstructFilemakerExplicit(r)

SpecExplicit == InitExplicit /\ [][NextExplicit]_vars

----------------------------------------------------------------------------
(* value2str applied to one value. *)

Coerce ==
    /\ pc = "unstarted"
    /\ res' = value2str(val)
    /\ pc' = "coerced"
    /\ UNCHANGED <<fdef, fs, cwd, curdir, pushes, pops, raised, startCwd, root,
                   cleanup, bodyRan, bodyMoved, fdOpen, privileged, val>>

InitCoerce ==
    /\ InitCommon
    /\ cwd = <<"home">>
    /\ fdef = None
    /\ fdOpen = FALSE
    /\ privileged = FALSE
    /\ val \in CoerceValues

NextCoerce == Coerce

SpecCoerce == InitCoerce /\ [][NextCoerce]_vars

----------------------------------------------------------------------------
(* The reference rules of the implicit dialect, as a list of entries in    *)
(* the order the rules produce them; a later file replaces an earlier file *)
(* of the same path.                                                       *)

Coerced(v) == value2str(v).s

RefDir(p) == [path |-> p, isdir |-> TRUE, content |-> ""]
RefFile(p, text) == [path |-> p, isdir |-> FALSE, content |-> text]

RECURSIVE RefEvents(_, _)
RECURSIVE RefEntries(_, _, _)
RECURSIVE RefItems(_, _, _)

RefEntries(base, entries, i) ==
    IF i > Len(entries) THEN <<>>
    ELSE LET e == entries[i]
             p == base \o <<Coerced(e.k)>>
         IN (IF e.v.kind = "none" THEN <<RefDir(p)>>
             ELSE IF e.v.kind \in {"dict", "list"} THEN <<RefDir(p)>> \o RefEvents(p, e.v)
             ELSE <<RefFile(p, Coerced(e.v))>>)
            \o RefEntries(base, entries, i + 1)

RefItems(base, items, i) ==
    IF i > Len(items) THEN <<>>
    ELSE RefEvents(base, items[i]) \o RefItems(base, items, i + 1)

RefEvents(base, item) ==
    IF item.kind = "dict" THEN RefEntries(base, item.entries, 1)
    ELSE IF item.kind = "list" THEN RefItems(base, item.items, 1)
    ELSE <<RefFile(base \o <<Coerced(item)>>, "")>>

\* The subtree the reference rules give for tree under base.
RefFs(base, tree) ==
    LET ev == RefEvents(base, tree) IN
    {Entry(ev[j].path, ev[j].isdir, ev[j].content) :
        j \in {i \in 1..Len(ev) : \A k \in (i + 1)..Len(ev) : ev[k].path # ev[i].path}}

\* No directory is asked for under a name already taken in its directory,
\* and no file under the name of a directory.
NonConflicting(tree) ==
    LET ev == RefEvents(<<>>, tree) IN
    \A j \in 1..Len(ev) : \A i \in 1..(j - 1) :
        ev[i].path = ev[j].path => ~ev[i].isdir /\ ~ev[j].isdir

\* Every name asked for is one a directory entry can take.
ValidNames(tree) ==
    LET ev == RefEvents(<<>>, tree) IN
    \A j \in 1..Len(ev) : ev[j].path[Len(ev[j].path)] # ""

RECURSIVE ScalarsOf(_)
\* The scalars of a tree: its leaves and its mapping keys.
ScalarsOf(tree) ==
    IF tree.kind = "dict"
    THEN UNION {{tree.entries[i].k} \cup ScalarsOf(tree.entries[i].v) :
                  i \in 1..Len(tree.entries)}
    ELSE IF tree.kind = "list"
    THEN UNION {ScalarsOf(tree.items[i]) : i \in 1..Len(tree.items)}
    ELSE {tree}

\* Composed only of mappings, sequences and text, number or date scalars.
OnlySupported(tree) == \A v \in ScalarsOf(tree) : v.kind \in {"str", "int", "date"}

\* The entries outside the root are those that were there before.
OutsideUntouched ==
    {e \in fs : ~IsPrefix(root, e.path)} = {e \in InitFs : ~IsPrefix(root, e.path)}

SandboxUsed == pc \in {"active", "torndown"}
DirectDone == pc = "constructed"

\* The materialization ran to its end without raising.
Completed == \/ DirectDone /\ raised = "ok"
             \/ pc = "active"
             \/ pc = "torndown" /\ bodyRan

\* The exception Filemaker raises inside create_files for this tree ("ok": none).
EntryError ==
    Construct("implicit", InitFs \cup {Entry(Tmpdir, TRUE, "")}, startCwd, Tmpdir, fdef).err

----------------------------------------------------------------------------
(* The claims. *)

\* C1: once the scope of create_files has exited - the body finished, the
\* body raised, the body changed the working directory, or Filemaker raised
\* before the body - the working directory is the one from before entry.
C1_CwdRestored == pc = "torndown" => cwd = startCwd

\* C1's case: the body moved elsewhere and then raised.
C1_Witness == pc = "torndown" /\ bodyMoved /\ raised = "BodyError" /\ startCwd = <<"home">>

\* C2: after the scope has exited, with cleanup the temporary root is gone
\* with all it held; without cleanup it is still a directory, and after a
\* scope that was entered it holds exactly the tree of the reference rules.
C2_Cleanup ==
    pc = "torndown" =>
        IF cleanup
        THEN ~Exists(fs, root) /\ Below(fs, root) = {}
        ELSE IsDir(fs, root) /\ (bodyRan => Below(fs, root) = RefFs(root, fdef))

\* C2's case: a scope left by an error with cleanup off, its tree still there.
C2_Witness ==
    pc = "torndown" /\ ~cleanup /\ raised = "BodyError" /\ Below(fs, root) # {}

\* C3: when the implicit dialect's materialization completes, the subtree
\* under the root is the one the reference rules give (directories for
\* mapping, sequence and null values, files with coerced content otherwise,
\* sequence elements as siblings, a bare scalar as an empty file), and
\* nothing else was created.
C3_MatchesReference ==
    (pc \in {"constructed", "active"} /\ Completed) =>
        /\ IsDir(fs, root)
        /\ Below(fs, root) = RefFs(root, fdef)
        /\ OutsideUntouched

\* C3's case: a file with content inside a directory made for a mapping entry.
C3_Witness ==
    /\ DirectDone /\ raised = "ok"
    /\ \E e \in fs : Len(e.path) = 3 /\ ~e.isdir /\ e.content # ""
    /\ Cardinality(Below(fs, root)) = 2

\* C4 as claimed: every tree of mappings, sequences and text, number or
\* date scalars materializes into a fresh empty root without raising.
C4_Original ==
    (DirectDone /\ root = <<"out">> /\ OnlySupported(fdef)) => raised = "ok"

\* C4 as amended: such a tree materializes into a fresh empty root without
\* raising when every coerced name is one a directory entry can take, no
\* directory is asked for under a name already taken in its directory and
\* no file under the name of a directory.
C4_NoRaise ==
    ( /\ DirectDone \/ SandboxUsed
      /\ DirectDone => root = <<"out">>
      /\ OnlySupported(fdef)
      /\ ValidNames(fdef)
      /\ NonConflicting(fdef) ) => Completed

\* C4's case: two keys with the same coerced name, both files, and no error.
C4_Witness ==
    /\ DirectDone /\ raised = "ok" /\ root = <<"out">>
    /\ OnlySupported(fdef) /\ ValidNames(fdef) /\ NonConflicting(fdef)
    /\ fdef.kind = "dict" /\ Len(fdef.entries) = 2
    /\ Cardinality(Below(fs, root)) = 1

\* C5 as claimed: value2str of a value that is neither text, number nor
\* date (a boolean, for one) raises UnknownType.
C5_UnsupportedRaises ==
    (pc = "coerced" /\ val.kind \notin {"str", "int", "date", "datetime"}) =>
        res.err = "UnknownType"

\* The text YYYY-MM-DD of a day, digit by digit.
TwoDigits(n) == DigitChars[((n \div 10) % 10) + 1] \o DigitChars[(n % 10) + 1]
IsoText(y, m, d) ==
    TwoDigits(y \div 100) \o TwoDigits(y % 100) \o "-" \o TwoDigits(m) \o "-" \o TwoDigits(d)

\* C6 as claimed: value2str of a date-time succeeds with the YYYY-MM-DD of
\* its date component, the text the plain date of that day coerces to.
C6_Original ==
    (pc = "coerced" /\ val.kind = "datetime") =>
        /\ res.err = "ok"
        /\ res.s = IsoText(val.y, val.m, val.d)
        /\ res = value2str(Date(val.y, val.m, val.d))

\* C6 as amended: value2str of a plain calendar date yields YYYY-MM-DD; of
\* a date-time it raises UnknownType, the time of day is not dropped.
C6_DateOnly ==
    pc = "coerced" =>
        /\ val.kind = "date" => res = Ok(IsoText(val.y, val.m, val.d))
        /\ val.kind = "datetime" => res = Fail("UnknownType")

\* C6's case: a date-time was coerced.
C6_Witness == pc = "coerced" /\ val.kind = "datetime" /\ val.hh = 13 /\ val.y = 7

\* C7: when Filemaker raises inside create_files, the scope is never
\* active and its body never runs; the caller gets that same exception
\* with the working directory restored and, under cleanup, the partly
\* built temporary root removed.
C7_EntryFailure ==
    (SandboxUsed /\ EntryError # "ok") =>
        /\ pc = "torndown"
        /\ ~bodyRan /\ ~bodyMoved
        /\ raised = EntryError
        /\ cwd = startCwd
        /\ cleanup => ~Exists(fs, root) /\ Below(fs, root) = {}

\* C7's case: UnknownType raised inside a directory already made and
\* entered, with cleanup on.
C7_Witness ==
    /\ pc = "torndown" /\ ~bodyRan /\ cleanup
    /\ raised = "UnknownType" /\ pushes = 2 /\ pops = 0

\* C8 as claimed: after a construction that did not raise, as many popd as
\* pushd calls were made and _curdir is empty.
C8_StackBalanced ==
    (DirectDone /\ raised = "ok") => pushes = pops /\ curdir = <<>>

\* A node with file and children, a usable text name, text content if any,
\* and no other key.
FileWithChildren(tree) ==
    /\ tree.kind = "dict"
    /\ HasKey(tree.entries, "file") /\ HasKey(tree.entries, "children")
    /\ \A i \in 1..Len(tree.entries) :
           tree.entries[i].k \in {Str("file"), Str("content"), Str("children")}
    /\ Get(tree.entries, "file").kind = "str"
    /\ HasKey(tree.entries, "content") => Get(tree.entries, "content").kind = "str"

\* C9 as claimed: a file node that carries children creates its file and
\* ignores the children: no error, nothing else created, the working
\* directory and _curdir as they were before the node.
C9_ChildrenIgnored ==
    (DirectDone /\ root = <<"out">> /\ FileWithChildren(fdef)) =>
        /\ raised = "ok"
        /\ cwd = root
        /\ curdir = <<startCwd>>
        /\ Below(fs, root) =
             {Entry(root \o <<Get(fdef.entries, "file").s>>, FALSE,
                    IF HasKey(fdef.entries, "content")
                    THEN Get(fdef.entries, "content").s ELSE "")}

\* A node with file, maybe content, and no other key.
PlainFile(tree) ==
    /\ tree.kind = "dict"
    /\ HasKey(tree.entries, "file")
    /\ \A i \in 1..Len(tree.entries) : tree.entries[i].k \in {Str("file"), Str("content")}

\* A node with directory and no other key.
PlainDirectory(tree) ==
    /\ tree.kind = "dict"
    /\ HasKey(tree.entries, "directory")
    /\ Len(tree.entries) = 1

\* C10 as claimed: the explicit dialect passes the name given by file or
\* directory and the content of a file node through value2str: the entry is
\* made under the coerced name, a file with the coerced content, and a name
\* or content value2str rejects fails with UnknownType.
C10_ExplicitCoerces ==
    (DirectDone /\ root = <<"out">>) =>
        /\ PlainFile(fdef) =>
              LET name == value2str(Get(fdef.entries, "file"))
                  text == IF HasKey(fdef.entries, "content")
                          THEN value2str(Get(fdef.entries, "content")) ELSE Ok("")
              IN IF name.err = "ok" /\ text.err = "ok"
                 THEN /\ raised = "ok"
                      /\ Below(fs, root) = {Entry(root \o <<name.s>>, FALSE, text.s)}
                 ELSE raised = "UnknownType"
        /\ PlainDirectory(fdef) =>
              LET name == value2str(Get(fdef.entries, "directory"))
              IN IF name.err = "ok"
                 THEN /\ raised = "ok"
                      /\ Below(fs, root) = {Entry(root \o <<name.s>>, TRUE, "")}
                 ELSE raised = "UnknownType"

====
